---- MODULE Spec2Model ----
(***************************************************************************)
(* Model of the vector store of reasoning_rag: FAISSVectorStore            *)
(* (src/src/vectorstore/faiss_store.py), the embedding calls it makes      *)
(* (src/src/utils/ollama_client.py), its three persisted artifacts, and    *)
(* the pipeline operations that drive it (src/src/rag_pipeline.py).        *)
(*                                                                         *)
(* A chunk is a record [text, file]: 'text' is chunk['text'] and 'file'    *)
(* is chunk['context']['file_name'].  A vector is an integer (one          *)
(* coordinate); IndexFlatL2 keeps the vectors in insertion order and       *)
(* measures squared Euclidean distance.                                    *)
(***************************************************************************)
EXTENDS Integers, Sequences, FiniteSets, TLC

\* ---------------------------------------------------------------- bounds
NumTexts == 2        \* distinct chunk texts 1..NumTexts
MaxAdd == 2          \* chunks handed to one add_documents call
MaxStore == 3        \* add_documents is not called beyond this many texts
MaxTopK == 2         \* top_k values 1..MaxTopK
MaxKept == 2         \* the same limit where searches or the disk are modelled
MaxFaults == 1       \* failed provider calls and failed or interrupted file
                     \* operations in one behaviour
NumDocs == 2         \* distinct contents 1..NumDocs of the files handed to
                     \* ingest_document (content 0: a text too short to chunk)
MaxIngested == 4     \* ingest_document is not called beyond this many chunks

FileNames == {"a.txt", "b.txt"}
Texts == 1..NumTexts
\* the file a text comes from: odd texts from a.txt, even ones from b.txt
FileOf(t) == IF t % 2 = 1 THEN "a.txt" ELSE "b.txt"
Chunks == {[text |-> t, file |-> FileOf(t)] : t \in Texts}
Queries == 0..NumTexts
BatchSizes == {1, 2}
TopKs == 1..MaxTopK
\* thresholds as fractions <<numerator, denominator>>: -1/2, 0, 1/2 and 1
Thresholds == {<<-1, 2>>, <<0, 1>>, <<1, 2>>, <<1, 1>>}

VARIABLES
    index,          \* self.index: [made |-> FALSE] is None, else the vectors
    documents,      \* self.documents: the chunk texts
    metadata,       \* self.metadata: the chunk dictionaries
    diskIndex,      \* the file at index_path
    diskDocs,       \* the file at docs_path (documents.pkl)
    diskMeta,       \* the file at meta_path (metadata.pkl)
    processed_docs, \* RAGPipeline.processed_docs, in insertion order
    diskProv,       \* the provenance file at config.METADATA_PATH
    faults,         \* history: the provider calls and file operations that
                    \* failed or were interrupted so far
    removedFiles,   \* history: the file names a delete on this store object
                    \* removed chunks of, and no add has brought back since
    ret,            \* the last call: its name, arguments and outcome
    add_call,       \* the add_documents call in progress: its position and
                    \* its local variables
    delete_call     \* the delete_by_filename call in progress, likewise

vars == <<index, documents, metadata, diskIndex, diskDocs, diskMeta,
          processed_docs, diskProv, faults, removedFiles, ret,
          add_call, delete_call>>
store == <<index, documents, metadata>>
disk == <<diskIndex, diskDocs, diskMeta>>
pipeline == <<processed_docs, diskProv>>
inflight == <<add_call, delete_call>>
MayFail == {b \in BOOLEAN : ~b \/ faults < MaxFaults}

\* ------------------------------------------------------------- helpers
NoIndex == [made |-> FALSE, vecs |-> <<>>]
\* no add_documents call in progress, no delete_by_filename call in progress
NoAdd == [pc |-> "idle", chunks |-> <<>>, embeddings |-> <<>>, seen |-> "none"]
NoDelete == [pc |-> "idle", filename |-> "", new_documents |-> <<>>,
             new_metadata |-> <<>>, removed_count |-> 0, embeddings |-> <<>>]
NoFile == [exists |-> FALSE, data |-> <<>>]
File(d) == [exists |-> TRUE, data |-> d]

\* faiss.IndexFlatL2(dimension): a new index without vectors
create_index == [made |-> TRUE, vecs |-> <<>>]

\* index.ntotal, 0 when the index was never created (as get_stats reads it)
ntotal(ix) == IF ix.made THEN Len(ix.vecs) ELSE 0

\* the embedding provider's answer for a text: a fixed function of the text;
\* text 0 lies halfway between texts 1 and 2
Embed(t) == IF t = 0 THEN 6 ELSE 4 * t

\* OllamaClient.get_embeddings_batch: one get_embedding call per text, in
\* order; failAt is the position (1-based, in the whole add) of the call
\* that raises, 0 when none does; base is the number of texts before the batch
RECURSIVE get_embeddings_batch(_, _, _)
get_embeddings_batch(texts, base, failAt) ==
    IF texts = <<>> THEN [ok |-> TRUE, val |-> <<>>]
    ELSE IF failAt = base + 1 THEN [ok |-> FALSE, val |-> <<>>]
    ELSE LET rest == get_embeddings_batch(Tail(texts), base + 1, failAt)
         IN  IF rest.ok
             THEN [ok |-> TRUE, val |-> <<Embed(Head(texts))>> \o rest.val]
             ELSE rest

Min(a, b) == IF a < b THEN a ELSE b

\* a variant of EmbedInBatches that puts a later batch before an earlier one
RECURSIVE EmbedInBatches_reversed(_, _, _, _)
EmbedInBatches_reversed(texts, i, batch_size, failAt) ==
    IF i >= Len(texts) THEN [ok |-> TRUE, val |-> <<>>]
    ELSE LET batch_texts == SubSeq(texts, i + 1, Min(i + batch_size, Len(texts)))
             batch == get_embeddings_batch(batch_texts, i, failAt)
         IN  IF ~batch.ok THEN batch
             ELSE LET rest == EmbedInBatches_reversed(texts, i + batch_size,
                                                      batch_size, failAt)
                  IN  IF rest.ok
                      THEN [ok |-> TRUE, val |-> rest.val \o batch.val]
                      ELSE rest

\* the loop of add_documents over range(0, len(texts), batch_size):
\* embeddings.extend(batch_embeddings) for each slice texts[i:i + batch_size]
RECURSIVE EmbedInBatches(_, _, _, _)
EmbedInBatches(texts, i, batch_size, failAt) ==
    IF i >= Len(texts) THEN [ok |-> TRUE, val |-> <<>>]
    ELSE LET batch_texts == SubSeq(texts, i + 1, Min(i + batch_size, Len(texts)))
             batch == get_embeddings_batch(batch_texts, i, failAt)
         IN  IF ~batch.ok THEN batch
             ELSE LET rest == EmbedInBatches(texts, i + batch_size, batch_size, failAt)
                  IN  IF rest.ok
                      THEN [ok |-> TRUE, val |-> batch.val \o rest.val]
                      ELSE rest

TextsOf(chunks) == [i \in 1..Len(chunks) |-> chunks[i].text]

\* ---------------------------------------------------------------- Init
Init ==
    /\ index = NoIndex
    /\ documents = <<>>
    /\ metadata = <<>>
    /\ diskIndex = NoFile
    /\ diskDocs = NoFile
    /\ diskMeta = NoFile
    /\ processed_docs = <<>>
    /\ diskProv = NoFile
    /\ faults = 0
    /\ removedFiles = {}
    /\ ret = [op |-> "init", ok |-> TRUE]
    /\ add_call = NoAdd
    /\ delete_call = NoDelete

\* ------------------------------------------------------- add_documents
\* a variant of add_documents that extends the texts before it embeds them
add_documents_textsFirst(ix, docs, meta, chunks, batch_size, failAt) ==
    IF chunks = <<>>
    THEN [index |-> ix, documents |-> docs, metadata |-> meta,
          ok |-> TRUE, val |-> 0]
    ELSE LET ix1 == IF ix.made THEN ix ELSE create_index
             texts == TextsOf(chunks)
             embeddings == EmbedInBatches(texts, 0, batch_size, failAt)
         IN  IF ~embeddings.ok
             THEN [index |-> ix1, documents |-> docs \o texts, metadata |-> meta,
                   ok |-> FALSE, val |-> 0]
             ELSE [index |-> [made |-> TRUE, vecs |-> ix1.vecs \o embeddings.val],
                   documents |-> docs \o texts,
                   metadata |-> meta \o chunks,
                   ok |-> TRUE, val |-> Len(chunks)]

\* FAISSVectorStore.add_documents(chunks, batch_size) on the store
\* <<ix, docs, meta>>: the store it leaves, whether it returned, its result
add_documents(ix, docs, meta, chunks, batch_size, failAt) ==
    IF chunks = <<>>
    THEN [index |-> ix, documents |-> docs, metadata |-> meta,
          ok |-> TRUE, val |-> 0]
    ELSE LET ix1 == IF ix.made THEN ix ELSE create_index
             texts == TextsOf(chunks)
             embeddings == EmbedInBatches(texts, 0, batch_size, failAt)
         IN  IF ~embeddings.ok
             THEN [index |-> ix1, documents |-> docs, metadata |-> meta,
                   ok |-> FALSE, val |-> 0]
             ELSE [index |-> [made |-> TRUE, vecs |-> ix1.vecs \o embeddings.val],
                   documents |-> docs \o texts,
                   metadata |-> meta \o chunks,
                   ok |-> TRUE, val |-> Len(chunks)]

SeqsUpTo(S, n) == UNION {[1..k -> S] : k \in 0..n}

AddFrom(pool, maxAdd, limit) ==
    \E chunks \in SeqsUpTo(pool, maxAdd), batch_size \in BatchSizes :
        \E failAt \in 0..(IF faults < MaxFaults THEN Len(chunks) ELSE 0) :
            LET r == add_documents(index, documents, metadata, chunks,
                                   batch_size, failAt)
            IN  /\ Len(documents) + Len(chunks) <= limit
                /\ Len(metadata) + Len(chunks) <= limit
                /\ ntotal(index) + Len(chunks) <= limit
                /\ index' = r.index
                /\ documents' = r.documents
                /\ metadata' = r.metadata
                /\ removedFiles' = IF r.ok
                                    THEN removedFiles \
                                         {chunks[i].file : i \in 1..Len(chunks)}
                                    ELSE removedFiles
                /\ faults' = IF r.ok THEN faults ELSE faults + 1
                /\ UNCHANGED <<disk, pipeline>>
                /\ UNCHANGED inflight
                /\ ret' = [op |-> "add", ok |-> r.ok, val |-> r.val,
                           chunks |-> chunks]

AddDocuments == AddFrom(Chunks, MaxAdd, MaxStore)

\* add_documents of at most one chunk
AddOne == AddFrom(Chunks, 1, MaxKept)

\* --------------------------------------------------- delete_by_filename
\* a variant of KeepFrom that leaves the loop at the first chunk of the file
RECURSIVE KeepFrom_break(_, _, _, _)
KeepFrom_break(docs, meta, i, filename) ==
    IF i > Len(meta) THEN [ok |-> TRUE, docs |-> <<>>, meta |-> <<>>]
    ELSE IF meta[i].file # filename
    THEN IF i > Len(docs)
         THEN [ok |-> FALSE, docs |-> <<>>, meta |-> <<>>]
         ELSE LET rest == KeepFrom_break(docs, meta, i + 1, filename)
              IN  IF rest.ok
                  THEN [ok |-> TRUE, docs |-> <<docs[i]>> \o rest.docs,
                        meta |-> <<meta[i]>> \o rest.meta]
                  ELSE rest
    ELSE [ok |-> TRUE, docs |-> <<>>, meta |-> <<>>]

\* the loop "for idx, meta in enumerate(self.metadata)" from position i on
\* (1-based here): the kept texts and chunks, or the IndexError of
\* self.documents[idx]
RECURSIVE KeepFrom(_, _, _, _)
KeepFrom(docs, meta, i, filename) ==
    IF i > Len(meta) THEN [ok |-> TRUE, docs |-> <<>>, meta |-> <<>>]
    ELSE IF meta[i].file # filename
    THEN IF i > Len(docs)
         THEN [ok |-> FALSE, docs |-> <<>>, meta |-> <<>>]
         ELSE LET rest == KeepFrom(docs, meta, i + 1, filename)
              IN  IF rest.ok
                  THEN [ok |-> TRUE, docs |-> <<docs[i]>> \o rest.docs,
                        meta |-> <<meta[i]>> \o rest.meta]
                  ELSE rest
    ELSE KeepFrom(docs, meta, i + 1, filename)

\* a variant of delete_by_filename that rebuilds the index from the kept texts
\* but does not replace self.documents and self.metadata
delete_by_filename_indexOnly(ix, docs, meta, filename, failAt) ==
    LET kept == KeepFrom(docs, meta, 1, filename)
        removed_count == Len(docs) - Len(kept.docs)
        embeddings == get_embeddings_batch(kept.docs, 0, failAt)
    IN  IF ~kept.ok
        THEN [index |-> ix, documents |-> docs, metadata |-> meta,
              ok |-> FALSE, val |-> 0]
        ELSE IF removed_count > 0
        THEN IF embeddings.ok
             THEN [index |-> [made |-> TRUE, vecs |-> embeddings.val],
                   documents |-> docs, metadata |-> meta,
                   ok |-> TRUE, val |-> removed_count]
             ELSE [index |-> create_index, documents |-> docs,
                   metadata |-> meta, ok |-> FALSE, val |-> 0]
        ELSE [index |-> ix, documents |-> docs, metadata |-> meta,
              ok |-> TRUE, val |-> removed_count]

\* FAISSVectorStore.delete_by_filename(filename) on the store
\* <<ix, docs, meta>>: the store it leaves, whether it returned, its result;
\* failAt is the re-embedding call that raises (0: none)
delete_by_filename(ix, docs, meta, filename, failAt) ==
    LET kept == KeepFrom(docs, meta, 1, filename)
        removed_count == Len(docs) - Len(kept.docs)
    IN  IF ~kept.ok
        THEN [index |-> ix, documents |-> docs, metadata |-> meta,
              ok |-> FALSE, val |-> 0]
        ELSE IF removed_count > 0
        THEN LET embeddings == get_embeddings_batch(kept.docs, 0, failAt)
             IN  IF kept.docs # <<>>
                 THEN IF embeddings.ok
                      THEN [index |-> [made |-> TRUE, vecs |-> embeddings.val],
                            documents |-> kept.docs, metadata |-> kept.meta,
                            ok |-> TRUE, val |-> removed_count]
                      ELSE [index |-> create_index,
                            documents |-> kept.docs, metadata |-> kept.meta,
                            ok |-> FALSE, val |-> 0]
                 ELSE [index |-> create_index,
                       documents |-> kept.docs, metadata |-> kept.meta,
                       ok |-> TRUE, val |-> removed_count]
        ELSE [index |-> ix, documents |-> docs, metadata |-> meta,
              ok |-> TRUE, val |-> removed_count]

DeleteByFilename ==
    \E filename \in FileNames :
      LET kept == KeepFrom(documents, metadata, 1, filename)
          removes == kept.ok /\ Len(kept.docs) < Len(documents)
      IN
      \E failAt \in 0..(IF removes /\ faults < MaxFaults
                        THEN Len(kept.docs) ELSE 0) :
        LET r == delete_by_filename(index, documents, metadata, filename, failAt)
        IN  /\ faults' = IF failAt > 0 THEN faults + 1 ELSE faults
            /\ index' = r.index
            /\ documents' = r.documents
            /\ metadata' = r.metadata
            /\ removedFiles' = IF r.ok /\ r.val > 0
                                THEN removedFiles \cup {filename}
                                ELSE removedFiles
            /\ UNCHANGED <<disk, pipeline>>
            /\ UNCHANGED inflight
            /\ ret' = [op |-> "delete", ok |-> r.ok, val |-> r.val,
                       filename |-> filename]

\* ---------------------------------------------------------------- search
Dist(qv, v) == (qv - v) * (qv - v)

\* a variant of IndexSearch that returns the farthest positions first
RECURSIVE IndexSearch_farthest(_, _, _, _)
IndexSearch_farthest(vecs, qv, k, taken) ==
    IF k = 0 THEN <<>>
    ELSE LET cand == (0..(Len(vecs) - 1)) \ taken
         IN  IF cand = {}
             THEN <<[distance |-> -1, doc_idx |-> -1]>>
                     \o IndexSearch_farthest(vecs, qv, k - 1, taken)
             ELSE LET best == CHOOSE i \in cand : \A j \in cand :
                                 \/ Dist(qv, vecs[i + 1]) > Dist(qv, vecs[j + 1])
                                 \/ /\ Dist(qv, vecs[i + 1]) = Dist(qv, vecs[j + 1])
                                    /\ i <= j
                  IN  <<[distance |-> Dist(qv, vecs[best + 1]), doc_idx |-> best]>>
                         \o IndexSearch_farthest(vecs, qv, k - 1,
                                                 taken \cup {best})

\* index.search(query_vector, top_k) of IndexFlatL2: the top_k nearest
\* positions (0-based) by squared L2 distance, nearest first, lower position
\* first among equals; slots beyond the stored vectors carry position -1
RECURSIVE IndexSearch(_, _, _, _)
IndexSearch(vecs, qv, k, taken) ==
    IF k = 0 THEN <<>>
    ELSE LET cand == (0..(Len(vecs) - 1)) \ taken
         IN  IF cand = {}
             THEN <<[distance |-> -1, doc_idx |-> -1]>>
                     \o IndexSearch(vecs, qv, k - 1, taken)
             ELSE LET best == CHOOSE i \in cand : \A j \in cand :
                                 \/ Dist(qv, vecs[i + 1]) < Dist(qv, vecs[j + 1])
                                 \/ /\ Dist(qv, vecs[i + 1]) = Dist(qv, vecs[j + 1])
                                    /\ i <= j
                  IN  <<[distance |-> Dist(qv, vecs[best + 1]), doc_idx |-> best]>>
                         \o IndexSearch(vecs, qv, k - 1, taken \cup {best})

\* similarity = 1 / (1 + distance), as the fraction <<1, 1 + distance>>
Similarity(distance) == <<1, 1 + distance>>

\* a >= b for fractions with positive denominators
FracGeq(a, b) == a[1] * b[2] >= b[1] * a[2]

\* a variant of PassesThreshold that keeps only similarities above the
\* threshold
PassesThreshold_strict(similarity, threshold) ==
    threshold[1] <= 0 \/ ~FracGeq(threshold, similarity)

\* threshold <= 0 or similarity >= threshold
PassesThreshold(similarity, threshold) ==
    threshold[1] <= 0 \/ FracGeq(similarity, threshold)

\* a variant of FormatResults without the test doc_idx >= 0: position -1
\* reads the last text and the last metadata, as a negative index does
RECURSIVE FormatResults_negative(_, _, _, _, _)
FormatResults_negative(cands, idx, docs, meta, threshold) ==
    IF idx >= Len(cands) THEN [ok |-> TRUE, val |-> <<>>]
    ELSE LET c == cands[idx + 1]
             pos == IF c.doc_idx >= 0 THEN c.doc_idx + 1 ELSE Len(docs)
             rest == FormatResults_negative(cands, idx + 1, docs, meta,
                                            threshold)
         IN  IF /\ c.doc_idx < Len(docs)
                /\ docs # <<>>
                /\ PassesThreshold(Similarity(c.distance), threshold)
             THEN IF pos > Len(meta)
                  THEN [ok |-> FALSE, val |-> <<>>]
                  ELSE IF rest.ok
                  THEN [ok |-> TRUE,
                        val |-> <<[text |-> docs[pos],
                                   metadata |-> meta[pos],
                                   score |-> Similarity(c.distance),
                                   distance |-> c.distance,
                                   rank |-> idx + 1]>> \o rest.val]
                  ELSE rest
             ELSE rest

\* the result loop of search over enumerate(zip(distances[0], indices[0])),
\* from candidate idx (0-based) on: the records, or the IndexError of
\* self.metadata[doc_idx]
RECURSIVE FormatResults(_, _, _, _, _)
FormatResults(cands, idx, docs, meta, threshold) ==
    IF idx >= Len(cands) THEN [ok |-> TRUE, val |-> <<>>]
    ELSE LET c == cands[idx + 1]
             rest == FormatResults(cands, idx + 1, docs, meta, threshold)
         IN  IF /\ c.doc_idx >= 0
                /\ c.doc_idx < Len(docs)
                /\ PassesThreshold(Similarity(c.distance), threshold)
             THEN IF c.doc_idx >= Len(meta)
                  THEN [ok |-> FALSE, val |-> <<>>]
                  ELSE IF rest.ok
                  THEN [ok |-> TRUE,
                        val |-> <<[text |-> docs[c.doc_idx + 1],
                                   metadata |-> meta[c.doc_idx + 1],
                                   score |-> Similarity(c.distance),
                                   distance |-> c.distance,
                                   rank |-> idx + 1]>> \o rest.val]
                  ELSE rest
             ELSE rest

\* a variant of search that asks for the query embedding before it looks at
\* the index
search_embedFirst(ix, docs, meta, query, top_k, threshold, embedFails) ==
    IF embedFails THEN [ok |-> FALSE, val |-> <<>>]
    ELSE IF ~ix.made \/ ntotal(ix) = 0 THEN [ok |-> TRUE, val |-> <<>>]
    ELSE FormatResults(IndexSearch(ix.vecs, Embed(query), top_k, {}),
                       0, docs, meta, threshold)

\* a variant of search that answers with no results when the provider fails
search_emptyOnFailure(ix, docs, meta, query, top_k, threshold, embedFails) ==
    IF ~ix.made \/ ntotal(ix) = 0 THEN [ok |-> TRUE, val |-> <<>>]
    ELSE IF embedFails THEN [ok |-> TRUE, val |-> <<>>]
    ELSE FormatResults(IndexSearch(ix.vecs, Embed(query), top_k, {}),
                       0, docs, meta, threshold)

\* FAISSVectorStore.search(query, top_k, threshold) on the store
\* <<ix, docs, meta>>; embedFails: the provider fails when it is asked for
\* the embedding of the query
search(ix, docs, meta, query, top_k, threshold, embedFails) ==
    IF ~ix.made \/ ntotal(ix) = 0 THEN [ok |-> TRUE, val |-> <<>>]
    ELSE IF embedFails THEN [ok |-> FALSE, val |-> <<>>]
    ELSE FormatResults(IndexSearch(ix.vecs, Embed(query), top_k, {}),
                       0, docs, meta, threshold)

\* a variant of Search that drops the first stored text
Search_consuming ==
    \E query \in Queries, top_k \in TopKs, threshold \in Thresholds :
        LET out == search(index, documents, metadata, query, top_k,
                          threshold, FALSE)
        IN  /\ documents' = IF documents = <<>> THEN documents
                             ELSE Tail(documents)
            /\ UNCHANGED <<index, metadata, disk, pipeline, removedFiles,
                           faults>>
            /\ UNCHANGED inflight
            /\ ret' = [op |-> "search", ok |-> out.ok, val |-> out.val,
                       query |-> query, top_k |-> top_k,
                       threshold |-> threshold]

\* a search call; a provider that is down (embedFails) fails the call only
\* when the store holds vectors, because only then is the provider asked
Search ==
    \E query \in Queries, top_k \in TopKs, threshold \in Thresholds,
       embedFails \in MayFail :
      \E out \in {search(index, documents, metadata, query, top_k,
                         threshold, embedFails)} :
        /\ faults' = IF embedFails /\ ntotal(index) > 0
                      THEN faults + 1 ELSE faults
        /\ UNCHANGED <<store, disk, pipeline, removedFiles>>
        /\ UNCHANGED inflight
        /\ ret' = [op |-> "search", ok |-> out.ok, val |-> out.val,
                   query |-> query, top_k |-> top_k,
                   threshold |-> threshold]

\* ------------------------------------------------------------ persistence
\* a variant of save that does not rewrite the metadata file
save_withoutMetadata(ix, docs, meta, dIndex, dDocs, dMeta, written) ==
    IF ~ix.made
    THEN [diskIndex |-> dIndex, diskDocs |-> dDocs, diskMeta |-> dMeta,
          ok |-> TRUE]
    ELSE [diskIndex |-> IF written >= 1 THEN File(ix.vecs) ELSE dIndex,
          diskDocs |-> IF written >= 2 THEN File(docs) ELSE dDocs,
          diskMeta |-> IF dMeta.exists THEN dMeta ELSE File(meta),
          ok |-> written = 3]

\* FAISSVectorStore.save() of the store <<ix, docs, meta>> over the files
\* <<dIndex, dDocs, dMeta>>: the three writes in order; written is the number
\* of files written before an I/O failure or a crash (3: none); a file whose
\* write did not happen keeps its previous content
save(ix, docs, meta, dIndex, dDocs, dMeta, written) ==
    IF ~ix.made
    THEN [diskIndex |-> dIndex, diskDocs |-> dDocs, diskMeta |-> dMeta,
          ok |-> TRUE]
    ELSE [diskIndex |-> IF written >= 1 THEN File(ix.vecs) ELSE dIndex,
          diskDocs |-> IF written >= 2 THEN File(docs) ELSE dDocs,
          diskMeta |-> IF written >= 3 THEN File(meta) ELSE dMeta,
          ok |-> written = 3]

Save ==
    \E written \in 0..3 :
        LET r == save(index, documents, metadata,
                      diskIndex, diskDocs, diskMeta, written)
        IN  /\ written < 3 => index.made /\ faults < MaxFaults
            /\ faults' = IF r.ok THEN faults ELSE faults + 1
            /\ diskIndex' = r.diskIndex
            /\ diskDocs' = r.diskDocs
            /\ diskMeta' = r.diskMeta
            /\ UNCHANGED <<store, pipeline, removedFiles>>
            /\ UNCHANGED inflight
            /\ ret' = [op |-> "save", ok |-> r.ok]

\* a variant of load that does not restore the metadata
load_withoutMetadata(dIndex, dDocs, dMeta, failAt) ==
    IF ~dIndex.exists
    THEN [index |-> NoIndex, documents |-> <<>>, metadata |-> <<>>, failed |-> 0]
    ELSE IF failAt = 1
    THEN [index |-> create_index, documents |-> <<>>, metadata |-> <<>>,
          failed |-> 1]
    ELSE IF failAt = 2 \/ ~dDocs.exists
    THEN [index |-> create_index, documents |-> <<>>, metadata |-> <<>>,
          failed |-> 2]
    ELSE IF failAt = 3 \/ ~dMeta.exists
    THEN [index |-> create_index, documents |-> dDocs.data, metadata |-> <<>>,
          failed |-> 3]
    ELSE [index |-> [made |-> TRUE, vecs |-> dIndex.data],
          documents |-> dDocs.data, metadata |-> <<>>, failed |-> 0]

\* FAISSVectorStore.load() on a freshly constructed store; failAt is the read
\* (1: index, 2: documents, 3: metadata) that raises, 0 when the files that
\* exist are read without error; the result is the store <<index, documents,
\* metadata>> together with the read that failed
load(dIndex, dDocs, dMeta, failAt) ==
    IF ~dIndex.exists
    THEN [index |-> NoIndex, documents |-> <<>>, metadata |-> <<>>, failed |-> 0]
    ELSE IF failAt = 1
    THEN [index |-> create_index, documents |-> <<>>, metadata |-> <<>>,
          failed |-> 1]
    ELSE IF failAt = 2 \/ ~dDocs.exists
    THEN [index |-> create_index, documents |-> <<>>, metadata |-> <<>>,
          failed |-> 2]
    ELSE IF failAt = 3 \/ ~dMeta.exists
    THEN [index |-> create_index, documents |-> dDocs.data, metadata |-> <<>>,
          failed |-> 3]
    ELSE [index |-> [made |-> TRUE, vecs |-> dIndex.data],
          documents |-> dDocs.data, metadata |-> dMeta.data, failed |-> 0]

\* FAISSVectorStore.__init__: a new store object (a restart of the process,
\* also after a crash), which loads what is on disk
Restart ==
    \E failAt \in 0..3 :
        LET s == load(diskIndex, diskDocs, diskMeta, failAt)
        IN  /\ failAt > 0 => s.failed = failAt /\ faults < MaxFaults
            /\ faults' = IF failAt > 0 THEN faults + 1 ELSE faults
            /\ index' = s.index
            /\ documents' = s.documents
            /\ metadata' = s.metadata
            /\ removedFiles' = {}
            /\ UNCHANGED <<disk, pipeline>>
            /\ UNCHANGED inflight
            /\ ret' = [op |-> "load", ok |-> TRUE, failed |-> s.failed]

\* a variant of Clear that also removes the three files
Clear_withFiles ==
    /\ index' = create_index
    /\ documents' = <<>>
    /\ metadata' = <<>>
    /\ diskIndex' = NoFile
    /\ diskDocs' = NoFile
    /\ diskMeta' = NoFile
    /\ UNCHANGED <<pipeline, faults, removedFiles>>
    /\ UNCHANGED inflight
    /\ ret' = [op |-> "clear", ok |-> TRUE]

\* FAISSVectorStore.clear()
Clear ==
    /\ index' = create_index
    /\ documents' = <<>>
    /\ metadata' = <<>>
    /\ UNCHANGED <<disk, pipeline, faults, removedFiles>>
    /\ UNCHANGED inflight
    /\ ret' = [op |-> "clear", ok |-> TRUE]

\* ---------------------------------------------------------------- pipeline
\* add_documents of at most one chunk, of text 1 or 2, where the disk is
\* modelled
PersistChunks == {c \in Chunks : c.text <= 2}
AddPersist == AddFrom(PersistChunks, 1, MaxKept)

\* helpers.load_metadata(): the provenance entries on disk, none when the
\* file does not exist
load_metadata(dProv) == IF dProv.exists THEN dProv.data ELSE <<>>

\* dict.update on entries kept in insertion order: an entry whose hash is
\* present replaces it in place, a new one is appended
RECURSIVE DictUpdate(_, _)
DictUpdate(existing, new) ==
    IF new = <<>> THEN existing
    ELSE LET e == Head(new)
             hit == {i \in 1..Len(existing) : existing[i].hash = e.hash}
             merged == IF hit = {} THEN Append(existing, e)
                       ELSE [i \in 1..Len(existing) |->
                                IF i \in hit THEN e ELSE existing[i]]
         IN  DictUpdate(merged, Tail(new))

\* helpers.save_metadata(metadata): merges into what the file holds and
\* rewrites it; writeFails: the write raises and the file keeps its content
save_metadata(procDocs, dProv, writeFails) ==
    IF writeFails THEN [diskProv |-> dProv, ok |-> FALSE]
    ELSE [diskProv |-> File(DictUpdate(load_metadata(dProv), procDocs)),
          ok |-> TRUE]

RemoveAt(seq, i) == SubSeq(seq, 1, i - 1) \o SubSeq(seq, i + 1, Len(seq))

\* RAGPipeline.delete_document(filename)
delete_document(filename, writeFails, failAt, written) ==
    LET hits == {i \in 1..Len(processed_docs) :
                    processed_docs[i].file_name = filename}
        hash_to_remove == IF hits = {} THEN 0
                          ELSE CHOOSE i \in hits : \A j \in hits : i <= j
        procDocs == IF hits = {} THEN processed_docs
                    ELSE RemoveAt(processed_docs, hash_to_remove)
        prov == IF hits = {} THEN [diskProv |-> diskProv, ok |-> TRUE]
                ELSE save_metadata(procDocs, diskProv, writeFails)
        del == delete_by_filename(index, documents, metadata, filename, failAt)
        sav == save(del.index, del.documents, del.metadata,
                    diskIndex, diskDocs, diskMeta, written)
    IN  /\ processed_docs' = procDocs
        /\ diskProv' = prov.diskProv
        /\ IF ~prov.ok
           THEN /\ UNCHANGED <<store, disk, removedFiles>>
                /\ faults' = faults + 1
                /\ UNCHANGED inflight
                /\ ret' = [op |-> "delete_document", ok |-> FALSE,
                           val |-> 0, filename |-> filename]
           ELSE /\ index' = del.index
                /\ documents' = del.documents
                /\ metadata' = del.metadata
                /\ removedFiles' = IF del.ok /\ del.val > 0
                                    THEN removedFiles \cup {filename}
                                    ELSE removedFiles
                /\ IF del.ok /\ del.val > 0
                   THEN /\ diskIndex' = sav.diskIndex
                        /\ diskDocs' = sav.diskDocs
                        /\ diskMeta' = sav.diskMeta
                        /\ faults' = IF sav.ok THEN faults ELSE faults + 1
                        /\ UNCHANGED inflight
                        /\ ret' = [op |-> "delete_document", ok |-> sav.ok,
                                   val |-> del.val, filename |-> filename]
                   ELSE /\ UNCHANGED disk
                        /\ faults' = IF failAt > 0 THEN faults + 1 ELSE faults
                        /\ UNCHANGED inflight
                        /\ ret' = [op |-> "delete_document", ok |-> del.ok,
                                   val |-> del.val, filename |-> filename]

\* the inputs of delete_document and the failures that can strike it: the
\* provenance write when there is an entry to remove, a re-embedding call of
\* a retained text, a write of save() when chunks were removed
DeleteDocumentOf(names) ==
    \E filename \in names :
        LET hasEntry == \E i \in 1..Len(processed_docs) :
                            processed_docs[i].file_name = filename
            kept == KeepFrom(documents, metadata, 1, filename)
            removes == kept.ok /\ Len(kept.docs) < Len(documents)
        IN  \E writeFails \in {b \in MayFail : b => hasEntry},
               failAt \in 0..(IF removes /\ faults < MaxFaults
                               THEN Len(kept.docs) ELSE 0) :
                \E written \in {w \in 0..3 : w < 3 =>
                                  /\ removes /\ failAt = 0 /\ ~writeFails
                                  /\ faults < MaxFaults} :
                    delete_document(filename, writeFails, failAt, written)

DeleteDocument == DeleteDocumentOf(FileNames)

\* -------------------------------------------------------------- ingestion
\* the files a user uploads: the name is os.path.basename(file_path), the
\* content decides the bytes, and so the hash, and the text
UploadNames == FileNames \cup {"c.csv"}
Uploads == [name : UploadNames, content : 0..NumDocs]

\* helpers.get_file_hash: the digest of the bytes, different for different
\* contents and the same for the same content under another name
get_file_hash(f) == 2 * f.content + 1

\* dict.get(key, default) on a record
Get(d, key, default) == IF key \in DOMAIN d THEN d[key] ELSE default

\* DocumentParser.parse: file_name is set on the result, beside the parser's
\* 'metadata' dictionary, which has no 'file_name' key; a csv file here is
\* one that _detect_messy_csv finds messy, and one without content makes
\* _parse_csv raise, which parse reports as success False
parse(f) ==
    [success |-> ~(f.name = "c.csv" /\ f.content = 0),
     file_name |-> f.name,
     metadata |-> [is_messy |-> f.name = "c.csv"],
     tabular |-> f.name = "c.csv",
     content |-> f.content]

\* helpers.chunk_text_semantic: the chunk texts of a content, none for
\* content 0
chunk_text_semantic(content) ==
    IF content = 0 THEN <<>>
    ELSE <<((content - 1) % NumTexts) + 1, (content % NumTexts) + 1>>

\* the text of the analysis chunk of a tabular file, and the text of a data
\* chunk with the analysis put before it
AnalysisText == 0
EnrichedText(t) == t + NumTexts

\* IntelligentPreprocessor._create_enriched_chunks: the chunk's
\* context.file_name is metadata.get('file_name', '')
_create_enriched_chunks(content, meta) ==
    LET base_chunks == chunk_text_semantic(content)
    IN  [i \in 1..Len(base_chunks) |->
            [text |-> base_chunks[i], file |-> Get(meta, "file_name", "")]]

\* IntelligentPreprocessor._create_tabular_chunks: the analysis chunk, then
\* the data chunks; their context has no 'file_name' key, so the file name
\* read from a chunk is the default ''
_create_tabular_chunks(content) ==
    LET base_chunks == chunk_text_semantic(content)
        context == [data_type |-> "tabular"]
    IN  <<[text |-> AnalysisText, file |-> Get(context, "file_name", "")]>>
        \o [i \in 1..Len(base_chunks) |->
               [text |-> EnrichedText(base_chunks[i]),
                file |-> Get(context, "file_name", "")]]

\* IntelligentPreprocessor.process_document: whether the result has a
\* 'chunks' key, and the chunks
process_document(parsed_doc) ==
    IF parsed_doc.metadata.is_messy /\ parsed_doc.tabular
    THEN [has_chunks |-> TRUE,
          chunks |-> _create_tabular_chunks(parsed_doc.content)]
    ELSE IF parsed_doc.content = 0
    THEN [has_chunks |-> FALSE, chunks |-> <<>>]
    ELSE [has_chunks |-> TRUE,
          chunks |-> _create_enriched_chunks(parsed_doc.content,
                                             parsed_doc.metadata)]

\* the batch_size add_documents uses when ingest_document calls it
DefaultBatchSize == 32

\* self.processed_docs[file_hash] = {...}
DictSet(d, entry) == DictUpdate(d, <<entry>>)

\* a variant of HasHash that skips the first entry of the record
HasHash_skipFirst(d, h) == \E i \in 2..Len(d) : d[i].hash = h

\* file_hash in self.processed_docs
HasHash(d, h) == \E i \in 1..Len(d) : d[i].hash = h

\* delete_document of a file that may have been uploaded
DeleteUpload == DeleteDocumentOf(UploadNames)

\* RAGPipeline.ingest_document(file_path, save_to_store) of the file f;
\* failAt: the embedding call that raises (0: none); written: the files
\* save() writes before an I/O error (3: all); writeFails: the write of the
\* provenance file raises. Every exception after the hash check is caught
\* and reported as status 'error'.
ingest_document(f, save_to_store, failAt, written, writeFails) ==
    LET file_hash == get_file_hash(f)
        parsed_doc == parse(f)
        processed_doc == process_document(parsed_doc)
        add == add_documents(index, documents, metadata, processed_doc.chunks,
                             DefaultBatchSize, failAt)
        sav == save(add.index, add.documents, add.metadata,
                    diskIndex, diskDocs, diskMeta, written)
        procDocs == DictSet(processed_docs,
                            [hash |-> file_hash, file_name |-> f.name,
                             chunks |-> add.val])
        prov == save_metadata(procDocs, diskProv, writeFails)
        result(status, n) == [op |-> "ingest", ok |-> TRUE, status |-> status,
                              val |-> n, file |-> f]
    IN  IF HasHash(processed_docs, file_hash)
        THEN /\ UNCHANGED <<store, disk, pipeline, faults, removedFiles>>
             /\ UNCHANGED inflight
             /\ ret' = result("already_processed", 0)
        ELSE IF ~parsed_doc.success
        THEN /\ UNCHANGED <<store, disk, pipeline, faults, removedFiles>>
             /\ UNCHANGED inflight
             /\ ret' = result("error", 0)
        ELSE IF ~(save_to_store /\ processed_doc.has_chunks)
        THEN /\ UNCHANGED <<store, disk, pipeline, faults, removedFiles>>
             /\ UNCHANGED inflight
             /\ ret' = result("processed_no_store", 0)
        ELSE /\ index' = add.index
             /\ documents' = add.documents
             /\ metadata' = add.metadata
             /\ removedFiles' =
                    IF add.ok
                    THEN removedFiles \ {processed_doc.chunks[i].file :
                                            i \in 1..Len(processed_doc.chunks)}
                    ELSE removedFiles
             /\ IF ~add.ok
                THEN /\ UNCHANGED <<disk, pipeline>>
                     /\ faults' = faults + 1
                     /\ UNCHANGED inflight
                     /\ ret' = result("error", 0)
                ELSE /\ diskIndex' = sav.diskIndex
                     /\ diskDocs' = sav.diskDocs
                     /\ diskMeta' = sav.diskMeta
                     /\ IF ~sav.ok
                        THEN /\ UNCHANGED pipeline
                             /\ faults' = faults + 1
                             /\ UNCHANGED inflight
                             /\ ret' = result("error", 0)
                        ELSE /\ processed_docs' = procDocs
                             /\ diskProv' = prov.diskProv
                             /\ faults' = IF prov.ok THEN faults ELSE faults + 1
                             /\ UNCHANGED inflight
                             /\ ret' = result(IF prov.ok THEN "success"
                                              ELSE "error", add.val)

\* ingest_document as the application calls it (save_to_store left at its
\* default), and the failures that can strike it: an embedding call, a
\* write of save(), the write of the provenance file
IngestDocument ==
    \E f \in Uploads :
        LET chunks == process_document(parse(f)).chunks
            stores == /\ ~HasHash(processed_docs, get_file_hash(f))
                      /\ parse(f).success
                      /\ chunks # <<>>
        IN  /\ stores => /\ Len(documents) + Len(chunks) <= MaxIngested
                          /\ Len(metadata) + Len(chunks) <= MaxIngested
                          /\ ntotal(index) + Len(chunks) <= MaxIngested
            /\ \E failAt \in 0..(IF stores /\ faults < MaxFaults
                                   THEN Len(chunks) ELSE 0) :
                 \E written \in {w \in 0..3 : w < 3 =>
                                    /\ stores /\ failAt = 0
                                    /\ faults < MaxFaults} :
                    \E writeFails \in {b \in MayFail : b =>
                                         stores /\ failAt = 0 /\ written = 3} :
                        ingest_document(f, TRUE, failAt, written, writeFails)

\* the "Clear All Data" button of the application: when get_stats() counts
\* texts, vector_store.clear() and then vector_store.save(); written: the
\* files save() writes before an I/O error (3: all). The pipeline's
\* processed_docs and the provenance file are not touched.
ClearAllData ==
    \E written \in {w \in 0..3 : w < 3 => Len(documents) > 0 /\ faults < MaxFaults} :
        LET sav == save(create_index, <<>>, <<>>,
                        diskIndex, diskDocs, diskMeta, written)
        IN  IF Len(documents) > 0
            THEN /\ index' = create_index
                 /\ documents' = <<>>
                 /\ metadata' = <<>>
                 /\ diskIndex' = sav.diskIndex
                 /\ diskDocs' = sav.diskDocs
                 /\ diskMeta' = sav.diskMeta
                 /\ faults' = IF sav.ok THEN faults ELSE faults + 1
                 /\ UNCHANGED <<pipeline, removedFiles, inflight>>
                 /\ ret' = [op |-> "clear_all_data", ok |-> sav.ok,
                            cleared |-> TRUE]
            ELSE /\ UNCHANGED <<store, disk, pipeline, faults, removedFiles,
                                inflight>>
                 /\ ret' = [op |-> "clear_all_data", ok |-> TRUE,
                            cleared |-> FALSE]

\* ----------------------------------------------------- retrieval and query
SIMILARITY_THRESHOLD == <<0, 1>>
RERANK_TOP_K == 3

\* Retriever.retrieve: search with the configured threshold
retrieve(query, top_k, embedFails) ==
    search(index, documents, metadata, query, top_k, SIMILARITY_THRESHOLD,
           embedFails)

\* what the model answers to a relevance prompt, as a string of characters
RerankReplies ==
    <<(<<"s", "c", "o", "r", "e", " ", "i", "s", ":", " ", "7">>),
      (<<"2">>), (<<"1", "0", "/", "1", "0">>)>>

\* the replies to the scoring calls of one rerank: call i gets reply
\* number i + k, counted cyclically, for some k
ReplyAssignment(calls, k) ==
    [i \in calls |-> RerankReplies[((i + k) % Len(RerankReplies)) + 1]]
ReplyAssignments(calls) ==
    {ReplyAssignment(calls, k) : k \in 1..Len(RerankReplies)}

DigitChars == <<"0", "1", "2", "3", "4", "5", "6", "7", "8", "9">>
isdigit(c) == \E i \in 1..Len(DigitChars) : DigitChars[i] = c
DigitValue(c) == (CHOOSE i \in 1..Len(DigitChars) : DigitChars[i] = c) - 1

\* seq[:n]
Take(seq, n) == SubSeq(seq, 1, Min(n, Len(seq)))

\* int(score_str) of a string of digits
RECURSIVE int(_)
int(score_str) ==
    IF score_str = <<>> THEN 0
    ELSE int(SubSeq(score_str, 1, Len(score_str) - 1)) * 10
         + DigitValue(score_str[Len(score_str)])

\* a variant of rerank_score that scores a chunk 0 when its call raised
rerank_score_noFallback(chunk, reply, callFails) ==
    LET score_str == SelectSeq(Take(reply, 10), isdigit)
    IN  IF callFails THEN <<0, 1>>
        ELSE IF score_str # <<>> THEN <<int(score_str), 1>>
        ELSE <<chunk.score[1] * 10, chunk.score[2]>>

\* the score _rerank_with_llm gives a chunk, as a fraction: the digits among
\* the first 10 characters of the reply read as one number, or 10 times the
\* chunk's similarity when there is no digit or the call raised
rerank_score(chunk, reply, callFails) ==
    LET score_str == SelectSeq(Take(reply, 10), isdigit)
    IN  IF ~callFails /\ score_str # <<>>
        THEN <<int(score_str), 1>>
        ELSE <<chunk.score[1] * 10, chunk.score[2]>>

\* a variant of SortByRerankScore that leaves the list as it is
SortByRerankScore_unsorted(seq) == seq

\* list.sort(key = rerank_score, reverse = True): stable, greatest first
RECURSIVE SortByRerankScore(_)
SortByRerankScore(seq) ==
    IF seq = <<>> THEN <<>>
    ELSE LET best == CHOOSE i \in 1..Len(seq) : \A j \in 1..Len(seq) :
                        \/ ~FracGeq(seq[j].rerank_score, seq[i].rerank_score)
                        \/ /\ FracGeq(seq[i].rerank_score, seq[j].rerank_score)
                           /\ i <= j
         IN  <<seq[best]>> \o SortByRerankScore(RemoveAt(seq, best))

\* the loop of _rerank_with_llm over the chunks from chunk i on: each chunk
\* with its 'rerank_score', appended to scored_chunks
RECURSIVE ScoreChunks(_, _, _, _)
ScoreChunks(chunks, replies, failed, i) ==
    IF i > Len(chunks) THEN <<>>
    ELSE <<[text |-> chunks[i].text, metadata |-> chunks[i].metadata,
            score |-> chunks[i].score, distance |-> chunks[i].distance,
            rank |-> chunks[i].rank,
            rerank_score |-> rerank_score(chunks[i], replies[i],
                                          i \in failed)]>>
         \o ScoreChunks(chunks, replies, failed, i + 1)

\* Retriever._rerank_with_llm: one scoring call per chunk; replies[i] is the
\* model's reply for chunk i and failed the set of calls that raised
_rerank_with_llm(chunks, top_k, replies, failed) ==
    Take(SortByRerankScore(ScoreChunks(chunks, replies, failed, 1)), top_k)

\* a variant of retrieve_with_rerank that asks search for 2 * top_k candidates
retrieve_with_rerank_doubling(query, top_k, rerank_top_k, embedFails, replies, failed) ==
    LET initial_results == retrieve(query, 2 * top_k, embedFails)
    IN  IF ~initial_results.ok
        THEN [ok |-> FALSE, val |-> <<>>, searched |-> 2 * top_k,
              llm_calls |-> 0]
        ELSE IF Len(initial_results.val) <= rerank_top_k
        THEN [ok |-> TRUE, val |-> initial_results.val,
              searched |-> 2 * top_k, llm_calls |-> 0]
        ELSE [ok |-> TRUE,
              val |-> _rerank_with_llm(initial_results.val, rerank_top_k,
                                       replies, failed),
              searched |-> 2 * top_k,
              llm_calls |-> Len(initial_results.val)]

\* Retriever.retrieve_with_rerank: the list it returns (or the exception of
\* the search), the top_k it hands to the search, and the number of scoring
\* calls it makes
retrieve_with_rerank(query, top_k, rerank_top_k, embedFails, replies, failed) ==
    LET initial_results == retrieve(query, top_k, embedFails)
    IN  IF ~initial_results.ok
        THEN [ok |-> FALSE, val |-> <<>>, searched |-> top_k, llm_calls |-> 0]
        ELSE IF Len(initial_results.val) <= rerank_top_k
        THEN [ok |-> TRUE, val |-> initial_results.val,
              searched |-> top_k, llm_calls |-> 0]
        ELSE [ok |-> TRUE,
              val |-> _rerank_with_llm(initial_results.val, rerank_top_k,
                                       replies, failed),
              searched |-> top_k,
              llm_calls |-> Len(initial_results.val)]

\* Generator.generate_educational_response: the model's answer, or the
\* exception of the call
generate_educational_response(context_chunks, genFails) ==
    IF genFails THEN [ok |-> FALSE, val |-> "none"]
    ELSE [ok |-> TRUE, val |-> "answer"]

\* a variant of query without the try/except around retrieval and generation
pipeline_query_uncaught(question, top_k, use_rerank, embedFails, replies, failed, genFails) ==
    LET context_chunks ==
            IF use_rerank
            THEN retrieve_with_rerank(question, top_k * 2, RERANK_TOP_K,
                                      embedFails, replies, failed)
            ELSE retrieve(question, top_k, embedFails)
        answer == generate_educational_response(context_chunks.val, genFails)
        sources == [i \in 1..Len(context_chunks.val) |->
                       [text |-> <<context_chunks.val[i].text, "...">>,
                        score |-> context_chunks.val[i].score]]
    IN  IF context_chunks.ok /\ answer.ok
        THEN [raised |-> FALSE, answer |-> answer.val, sources |-> sources,
              num_chunks_used |-> Len(context_chunks.val), success |-> TRUE]
        ELSE [raised |-> TRUE, answer |-> "none", sources |-> <<>>,
              num_chunks_used |-> 0, success |-> FALSE]

\* RAGPipeline.query(question, top_k, use_rerank): the dictionary it
\* returns, and whether it raised instead
pipeline_query(question, top_k, use_rerank, embedFails, replies, failed, genFails) ==
    LET context_chunks ==
            IF use_rerank
            THEN retrieve_with_rerank(question, top_k * 2, RERANK_TOP_K,
                                      embedFails, replies, failed)
            ELSE retrieve(question, top_k, embedFails)
        answer == generate_educational_response(context_chunks.val, genFails)
        sources == [i \in 1..Len(context_chunks.val) |->
                       [text |-> <<context_chunks.val[i].text, "...">>,
                        score |-> context_chunks.val[i].score]]
    IN  IF context_chunks.ok /\ answer.ok
        THEN [raised |-> FALSE, answer |-> answer.val, sources |-> sources,
              num_chunks_used |-> Len(context_chunks.val), success |-> TRUE]
        ELSE [raised |-> FALSE, answer |-> "Error processing query",
              sources |-> <<>>, num_chunks_used |-> 0, success |-> FALSE]

\* add_documents of at most one chunk, of text 1 or 2, for the calls of the
\* retriever, up to RERANK_TOP_K chunks
AddForRetrieve == AddFrom(PersistChunks, 1, RERANK_TOP_K)

\* the top_k values the retriever is called with: the greatest of a caller
\* and its double, which query passes; the rerank_top_k values: the two
\* below the configured one, which the stored chunks can exceed
RetrieveTopKs == {MaxTopK, 2 * MaxTopK}
RerankTopKs == {RERANK_TOP_K - 2, RERANK_TOP_K - 1}

\* a retrieve_with_rerank call and the failures that strike it: the
\* embedding of the query, one scoring call of the rerank (call k, where the
\* replies are those of assignment k)
RetrieveWithRerank ==
    \E query \in Queries, top_k \in RetrieveTopKs,
       rerank_top_k \in RerankTopKs :
      \E embedFails \in {b \in MayFail : b => ntotal(index) > 0} :
      \E initial \in {retrieve(query, top_k, embedFails)} :
        LET calls == IF initial.ok /\ Len(initial.val) > rerank_top_k
                     THEN 1..Len(initial.val) ELSE {}
            left == MaxFaults - faults - (IF embedFails THEN 1 ELSE 0)
        IN  \E k \in 1..(IF calls = {} THEN 1 ELSE Len(RerankReplies)) :
              \E replies \in {ReplyAssignment(calls, k)},
                 failed \in {F \in {{}, {k} \cap calls} :
                                Cardinality(F) <= left} :
              \E out \in {retrieve_with_rerank(query, top_k, rerank_top_k,
                                               embedFails, replies, failed)} :
                /\ faults' = faults + (IF embedFails THEN 1 ELSE 0)
                                 + Cardinality(failed)
                /\ UNCHANGED <<store, disk, pipeline, removedFiles>>
                /\ UNCHANGED inflight
                /\ ret' = [op |-> "retrieve_with_rerank", ok |-> out.ok,
                           val |-> out.val, query |-> query, top_k |-> top_k,
                           rerank_top_k |-> rerank_top_k,
                           searched |-> out.searched,
                           llm_calls |-> out.llm_calls,
                           replies |-> replies, failed |-> failed]

\* the characters of a chunk text: the odd texts read "Ab", the even "bC"
TextChars(t) == IF t % 2 = 1 THEN <<"A", "b">> ELSE <<"b", "C">>

\* a variant of lower_char that leaves capitals as they are
lower_char_asIs(c) == c

\* str.lower() on one character
lower_char(c) ==
    CASE c = "A" -> "a"
      [] c = "B" -> "b"
      [] c = "C" -> "c"
      [] OTHER -> c

\* str.lower()
lower(str) == [i \in 1..Len(str) |-> lower_char(str[i])]

\* kw in text: kw occurs in text as a substring (the empty string
\* occurs in every text)
Occurs(kw, text) ==
    \E off \in 0..(Len(text) - Len(kw)) :
        \A j \in 1..Len(kw) : text[off + j] = kw[j]

\* the body of the loop of retrieve_hybrid for one result: the score is
\* multiplied by 1 + 0.1 * keyword_matches, here the fraction
\* (10 + keyword_matches) / 10, and 'keyword_matches' is set, when a keyword
\* matched
BoostResult(result, keywords) ==
    LET text_lower == lower(TextChars(result.text))
        keyword_matches ==
            Cardinality({i \in 1..Len(keywords) :
                            Occurs(lower(keywords[i]), text_lower)})
    IN  IF keyword_matches > 0
        THEN [text |-> result.text, metadata |-> result.metadata,
              score |-> <<result.score[1] * (10 + keyword_matches),
                          result.score[2] * 10>>,
              distance |-> result.distance, rank |-> result.rank,
              keyword_matches |-> keyword_matches]
        ELSE result

\* list.sort(key = score, reverse = True): stable, greatest first
RECURSIVE SortByScore(_)
SortByScore(seq) ==
    IF seq = <<>> THEN <<>>
    ELSE LET best == CHOOSE i \in 1..Len(seq) : \A j \in 1..Len(seq) :
                        \/ ~FracGeq(seq[j].score, seq[i].score)
                        \/ /\ FracGeq(seq[i].score, seq[j].score)
                           /\ i <= j
         IN  <<seq[best]>> \o SortByScore(RemoveAt(seq, best))

\* Retriever.retrieve_hybrid(query, keywords, top_k); keywords <<>> stands
\* for None and for the empty list
retrieve_hybrid(query, keywords, top_k, embedFails) ==
    LET semantic_results == retrieve(query, top_k, embedFails)
    IN  IF ~semantic_results.ok THEN semantic_results
        ELSE IF keywords = <<>> THEN semantic_results
        ELSE [ok |-> TRUE,
              val |-> Take(SortByScore(
                               [i \in 1..Len(semantic_results.val) |->
                                   BoostResult(semantic_results.val[i],
                                               keywords)]),
                           top_k)]

\* the keyword lists a caller supplies: none; one keyword in another case
\* than the text has; the same letter twice; a keyword of two characters,
\* one that occurs nowhere and the empty string
KeywordLists ==
    {<<>>,
     <<(<<"a">>)>>,
     <<(<<"C">>), (<<"c">>)>>,
     <<(<<"a", "B">>), (<<"z">>), (<<>>)>>}

\* a retrieve_hybrid call; the embedding of the query may fail
RetrieveHybrid ==
    \E query \in Queries, top_k \in TopKs, keywords \in KeywordLists :
      \E embedFails \in {b \in MayFail : b => ntotal(index) > 0} :
      \E out \in {retrieve_hybrid(query, keywords, top_k, embedFails)} :
        /\ faults' = faults + (IF embedFails THEN 1 ELSE 0)
        /\ UNCHANGED <<store, disk, pipeline, removedFiles>>
        /\ UNCHANGED inflight
        /\ ret' = [op |-> "retrieve_hybrid", ok |-> out.ok, val |-> out.val,
                   query |-> query, top_k |-> top_k, keywords |-> keywords]

\* add_documents of at most one chunk, of text 1 or 2, up to the number of
\* chunks a rerank needs
AddForQuery == AddFrom(PersistChunks, 1, MaxIngested)

\* a query call and the failures that strike it: the embedding of the
\* question (asked for only when the store holds vectors), one scoring call
\* of the rerank (made only when more than RERANK_TOP_K chunks were
\* retrieved), the generation of the answer (reached only when retrieval
\* returned)
Query ==
    \E question \in Queries, top_k \in TopKs, use_rerank \in BOOLEAN :
      \E embedFails \in {b \in MayFail : b => ntotal(index) > 0} :
      \E initial \in {retrieve(question, IF use_rerank THEN top_k * 2
                                        ELSE top_k, embedFails)} :
        LET calls == IF /\ use_rerank /\ initial.ok
                        /\ Len(initial.val) > RERANK_TOP_K
                     THEN 1..Len(initial.val) ELSE {}
            left == MaxFaults - faults - (IF embedFails THEN 1 ELSE 0)
        IN  \E replies \in ReplyAssignments(calls),
               failed \in {F \in {{}} \cup {{i} : i \in calls} :
                              Cardinality(F) <= left} :
              \E genFails \in {b \in BOOLEAN : b =>
                                  /\ initial.ok
                                  /\ Cardinality(failed) < left} :
              \E out \in {pipeline_query(question, top_k, use_rerank, embedFails,
                                       replies, failed, genFails)} :
                LET stages == (IF embedFails THEN {"embedding"} ELSE {})
                              \cup (IF ~embedFails /\ ~initial.ok
                                    THEN {"search"} ELSE {})
                              \cup (IF failed # {} THEN {"rerank"} ELSE {})
                              \cup (IF genFails THEN {"generation"} ELSE {})
                IN  /\ faults' = faults + (IF embedFails THEN 1 ELSE 0)
                                 + Cardinality(failed)
                                 + (IF genFails THEN 1 ELSE 0)
                    /\ UNCHANGED <<store, disk, pipeline, removedFiles>>
                    /\ UNCHANGED inflight
                    /\ ret' = [op |-> "query", ok |-> ~out.raised,
                               failed |-> stages,
                               success |-> out.success,
                               answer |-> out.answer,
                               num_chunks_used |-> out.num_chunks_used,
                               num_sources |-> Len(out.sources)]

\* ------------------------------------------ the steps of the two mutators
\* add_documents and delete_by_filename as two callers of one store object
\* run them: each action is one statement on the shared store, or a run of
\* statements on the call's own variables, and no lock orders the two calls.
\* add_call.seen is history: "created" once a delete recreated the index
\* between this add's index.add and its documents.extend, "rebuilt" once
\* that delete returned in the same interval, "none" otherwise

\* a variant of extend_documents that appends the texts the store does not
\* hold yet
extend_documents_newOnly(docs, texts) ==
    docs \o SelectSeq(texts, LAMBDA t : \A i \in 1..Len(docs) : docs[i] # t)

\* self.documents.extend(texts)
extend_documents(docs, texts) == docs \o texts

\* add_documents up to the embeddings, for a call of at most one chunk, of
\* text 1 or 2: the empty call returns 0, the index is created when there is
\* none, and the texts are embedded
AddEmbed ==
    /\ add_call.pc = "idle"
    /\ \E chunks \in SeqsUpTo(PersistChunks, 1) :
         \E failAt \in 0..(IF faults < MaxFaults THEN Len(chunks) ELSE 0) :
         \E embeddings \in {EmbedInBatches(TextsOf(chunks), 0, DefaultBatchSize, failAt)} :
           /\ Len(documents) + Len(chunks) <= MaxStore
           /\ Len(metadata) + Len(chunks) <= MaxStore
           /\ ntotal(index) + Len(chunks) <= MaxStore
           /\ index' = IF chunks = <<>> \/ index.made THEN index ELSE create_index
           /\ faults' = IF failAt > 0 THEN faults + 1 ELSE faults
           /\ add_call' = IF chunks # <<>> /\ embeddings.ok
                          THEN [pc |-> "embedded", chunks |-> chunks,
                                embeddings |-> embeddings.val, seen |-> "none"]
                          ELSE NoAdd
           /\ ret' = IF chunks # <<>> /\ embeddings.ok
                     THEN ret
                     ELSE [op |-> "add_documents", ok |-> embeddings.ok, val |-> 0,
                           seen |-> "none"]
           /\ UNCHANGED <<documents, metadata, disk, pipeline, removedFiles,
                          delete_call>>

\* self.index.add(embeddings_array)
AddIndex ==
    /\ add_call.pc = "embedded"
    /\ index' = [made |-> TRUE, vecs |-> index.vecs \o add_call.embeddings]
    /\ add_call' = [add_call EXCEPT !.pc = "indexed"]
    /\ UNCHANGED <<documents, metadata, disk, pipeline, faults, removedFiles,
                   ret, delete_call>>

\* self.documents.extend(texts)
AddTexts ==
    /\ add_call.pc = "indexed"
    /\ documents' = extend_documents(documents, TextsOf(add_call.chunks))
    /\ add_call' = [add_call EXCEPT !.pc = "extended"]
    /\ UNCHANGED <<index, metadata, disk, pipeline, faults, removedFiles,
                   ret, delete_call>>

\* self.metadata.extend(chunks); return len(chunks)
AddMeta ==
    /\ add_call.pc = "extended"
    /\ metadata' = metadata \o add_call.chunks
    /\ add_call' = NoAdd
    /\ ret' = [op |-> "add_documents", ok |-> TRUE, val |-> Len(add_call.chunks),
               seen |-> add_call.seen]
    /\ UNCHANGED <<index, documents, disk, pipeline, faults, removedFiles,
                   delete_call>>

\* delete_by_filename up to removed_count: the loop over self.metadata fills
\* new_documents and new_metadata; a call that removes nothing returns 0
DeleteScan ==
    /\ delete_call.pc = "idle"
    /\ \E filename \in FileNames :
         \E kept \in {KeepFrom(documents, metadata, 1, filename)} :
           LET removed_count == Len(documents) - Len(kept.docs)
               goesOn == kept.ok /\ removed_count > 0
           IN  /\ delete_call' = IF goesOn
                                 THEN [pc |-> "scanned", filename |-> filename,
                                       new_documents |-> kept.docs,
                                       new_metadata |-> kept.meta,
                                       removed_count |-> removed_count,
                                       embeddings |-> <<>>]
                                 ELSE NoDelete
               /\ add_call' = IF goesOn THEN [add_call EXCEPT !.seen = "none"]
                              ELSE add_call
               /\ ret' = IF goesOn THEN ret
                         ELSE [op |-> "delete_by_filename", ok |-> kept.ok,
                               val |-> 0, filename |-> filename]
    /\ UNCHANGED <<store, disk, pipeline, faults, removedFiles>>

\* self.documents = new_documents
DeleteDocs ==
    /\ delete_call.pc = "scanned"
    /\ documents' = delete_call.new_documents
    /\ delete_call' = [delete_call EXCEPT !.pc = "documents"]
    /\ UNCHANGED <<index, metadata, disk, pipeline, faults, removedFiles,
                   ret, add_call>>

\* self.metadata = new_metadata
DeleteMeta ==
    /\ delete_call.pc = "documents"
    /\ metadata' = delete_call.new_metadata
    /\ delete_call' = [delete_call EXCEPT !.pc = "metadata"]
    /\ UNCHANGED <<index, documents, disk, pipeline, faults, removedFiles,
                   ret, add_call>>

\* self.create_index()
DeleteCreateIndex ==
    /\ delete_call.pc = "metadata"
    /\ index' = create_index
    /\ delete_call' = [delete_call EXCEPT !.pc = "created"]
    /\ add_call' = IF add_call.pc = "indexed"
                   THEN [add_call EXCEPT !.seen = "created"]
                   ELSE add_call
    /\ UNCHANGED <<documents, metadata, disk, pipeline, faults, removedFiles,
                   ret>>

\* what the add in progress has seen once the delete returned
SeenAtReturn == IF add_call.pc = "indexed" /\ add_call.seen = "created"
                THEN "rebuilt" ELSE "none"

\* "if self.documents:" and the re-embedding of self.documents as they are
\* now; with no texts left the call returns removed_count
DeleteEmbed ==
    /\ delete_call.pc = "created"
    /\ \E failAt \in 0..(IF faults < MaxFaults THEN Len(documents) ELSE 0) :
       \E embeddings \in {get_embeddings_batch(documents, 0, failAt)} :
         /\ faults' = IF failAt > 0 THEN faults + 1 ELSE faults
         /\ IF documents # <<>> /\ embeddings.ok
            THEN /\ delete_call' = [delete_call EXCEPT !.pc = "embedded",
                                       !.embeddings = embeddings.val]
                 /\ UNCHANGED <<ret, add_call>>
            ELSE /\ delete_call' = NoDelete
                 /\ add_call' = [add_call EXCEPT !.seen =
                                    IF embeddings.ok THEN SeenAtReturn ELSE "none"]
                 /\ ret' = [op |-> "delete_by_filename", ok |-> embeddings.ok,
                            val |-> IF embeddings.ok
                                    THEN delete_call.removed_count ELSE 0,
                            filename |-> delete_call.filename]
    /\ UNCHANGED <<store, disk, pipeline, removedFiles>>

\* self.index.add(embeddings_array); return removed_count
DeleteIndexAdd ==
    /\ delete_call.pc = "embedded"
    /\ index' = [made |-> TRUE, vecs |-> index.vecs \o delete_call.embeddings]
    /\ delete_call' = NoDelete
    /\ add_call' = [add_call EXCEPT !.seen = SeenAtReturn]
    /\ ret' = [op |-> "delete_by_filename", ok |-> TRUE,
               val |-> delete_call.removed_count,
               filename |-> delete_call.filename]
    /\ UNCHANGED <<documents, metadata, disk, pipeline, faults, removedFiles>>

\* -------------------------------------------------------- specifications
\* the store in memory: add, delete and clear on one store object
Next ==
    \/ AddDocuments
    \/ DeleteByFilename
    \/ Clear

Spec == Init /\ [][Next]_vars

\* searches on a store that adds and deletes build up
NextSearch ==
    \/ AddOne
    \/ DeleteByFilename
    \/ Search

SpecSearch == Init /\ [][NextSearch]_vars

\* the store and its files: add, delete_document, save and restart
NextPersist ==
    \/ AddPersist
    \/ DeleteDocument
    \/ Save
    \/ Restart

SpecPersist == Init /\ [][NextPersist]_vars

\* searches on a store that went through saves and restarts
NextRecover ==
    \/ AddPersist
    \/ Save
    \/ Restart
    \/ Search

SpecRecover == Init /\ [][NextRecover]_vars

\* delete_by_filename on a store that went through saves and restarts
NextReload ==
    \/ AddPersist
    \/ Save
    \/ Restart
    \/ DeleteByFilename

SpecReload == Init /\ [][NextReload]_vars

\* clear() on a store with a snapshot on disk
NextClear ==
    \/ AddPersist
    \/ Save
    \/ Clear
    \/ Restart

SpecClear == Init /\ [][NextClear]_vars

\* the pipeline: ingestion and deletion of documents
NextIngest ==
    \/ IngestDocument
    \/ DeleteUpload

SpecIngest == Init /\ [][NextIngest]_vars

\* the retriever on a store that add_documents calls filled
NextRetrieve ==
    \/ AddForRetrieve
    \/ RetrieveWithRerank

SpecRetrieve == Init /\ [][NextRetrieve]_vars

\* the retriever's keyword boost on a store that add_documents calls filled
NextHybrid ==
    \/ AddForRetrieve
    \/ RetrieveHybrid

SpecHybrid == Init /\ [][NextHybrid]_vars

\* the pipeline's queries on a store that add_documents calls filled
NextQuery ==
    \/ AddForQuery
    \/ Query

SpecQuery == Init /\ [][NextQuery]_vars

\* two callers on one store object, an add and a delete, step by step
NextInterleave ==
    \/ AddEmbed
    \/ AddIndex
    \/ AddTexts
    \/ AddMeta
    \/ DeleteScan
    \/ DeleteDocs
    \/ DeleteMeta
    \/ DeleteCreateIndex
    \/ DeleteEmbed
    \/ DeleteIndexAdd

SpecInterleave == Init /\ [][NextInterleave]_vars

\* the pipeline's ingestion and the application's "Clear All Data"
NextClearAll ==
    \/ IngestDocument
    \/ ClearAllData

SpecClearAll == Init /\ [][NextClearAll]_vars

\* ------------------------------------------------------------ properties
\* |texts| == |metadata| == index.count
Aligned(ix, docs, meta) ==
    /\ Len(docs) = Len(meta)
    /\ Len(meta) = ntotal(ix)

\* position by position: the vector is the embedding of the text and the
\* metadata is the chunk of that text
Corresponds(ix, docs, meta) ==
    /\ Aligned(ix, docs, meta)
    /\ \A i \in 1..Len(docs) :
        /\ ix.vecs[i] = Embed(docs[i])
        /\ meta[i].text = docs[i]

\* C1: after every add_documents or delete_by_filename call that completed,
\* in any sequence of such calls, len(documents) == len(metadata) ==
\* index.ntotal.
C1_AlignedAfterCompleted ==
    (ret.op \in {"add", "delete"} /\ ret.ok) =>
        Aligned(index, documents, metadata)

\* C2: add_documents of N chunks is all-or-nothing: when it returns, the
\* three counts have grown by exactly N and N is returned; when the provider
\* fails, no count has grown and no vector, text or metadata was appended.
C2_AddAllOrNothing ==
    [][ret'.op = "add" =>
        LET N == Len(ret'.chunks)
        IN  IF ret'.ok
            THEN /\ ret'.val = N
                 /\ Len(documents') = Len(documents) + N
                 /\ Len(metadata') = Len(metadata) + N
                 /\ ntotal(index') = ntotal(index) + N
            ELSE /\ documents' = documents
                 /\ metadata' = metadata
                 /\ index'.vecs = index.vecs]_vars

\* a failed add of two chunks on a store that holds chunks
C2_Witness ==
    /\ ret.op = "add" /\ ~ret.ok
    /\ Len(ret.chunks) = 2
    /\ Len(documents) >= 1
    /\ Aligned(index, documents, metadata)

\* C3: a completed add or delete on a store whose positions correspond leaves
\* a store whose positions correspond (vector i is the embedding of text i,
\* metadata i is the chunk of text i), and an add appends the vectors, texts
\* and chunks of its input, in the input order, after what was stored.
C3_PositionalCorrespondence ==
    [][(/\ ret'.op \in {"add", "delete"}
        /\ ret'.ok
        /\ Corresponds(index, documents, metadata)) =>
            /\ Corresponds(index', documents', metadata')
            /\ ret'.op = "add" =>
                /\ metadata' = metadata \o ret'.chunks
                /\ \A i \in 1..Len(ret'.chunks) :
                    /\ documents'[Len(documents) + i] = ret'.chunks[i].text
                    /\ index'.vecs[Len(documents) + i] =
                           Embed(ret'.chunks[i].text)]_vars

\* a completed add of two chunks with different texts onto a stored chunk
C3_Witness ==
    /\ ret.op = "add" /\ ret.ok
    /\ Len(ret.chunks) = 2
    /\ ret.chunks[1].text # ret.chunks[2].text
    /\ Len(documents) = 3
    /\ Corresponds(index, documents, metadata)

\* the j-th smallest element of a set of positions
NthOf(S, j) == CHOOSE i \in S : Cardinality({k \in S : k <= i}) = j

C5_NoRemovedChunkInResults ==
    (ret.op = "search" /\ ret.ok) =>
        \A i \in 1..Len(ret.val) :
            /\ ret.val[i].metadata.file \notin removedFiles
            /\ \E p \in 1..Len(documents) :
                /\ p <= Len(metadata)
                /\ ret.val[i].text = documents[p]
                /\ ret.val[i].metadata = metadata[p]

\* a search that returns records after a delete removed chunks of a file
C5_Witness ==
    /\ ret.op = "search" /\ ret.ok
    /\ Len(ret.val) >= 1
    /\ removedFiles # {}

\* C6: when the provider fails while delete_by_filename re-embeds the
\* retained texts, the store is in its state before the delete or satisfies
\* len(documents) == len(metadata) == index.ntotal.
C6_FailedDeleteLeavesStoreSound ==
    [][(ret'.op = "delete" /\ ~ret'.ok) =>
        \/ store' = store
        \/ Aligned(index', documents', metadata')]_vars

\* the store that a new store object loads from the files on disk when the
\* read failAt fails (0: none is made to fail)
Loaded(failAt) == load(diskIndex, diskDocs, diskMeta, failAt)

\* the files a completed save() of the store in memory writes
Snapshot(ix, docs, meta) == <<File(ix.vecs), File(docs), File(meta)>>

\* C7: when a delete that removed at least one chunk returns, the index,
\* texts and metadata it left are on disk, and a new store that loads from
\* disk holds no chunk of the deleted file.
C7_DeletePersistsBeforeReturn ==
    (ret.op = "delete_document" /\ ret.ok /\ ret.val > 0) =>
        /\ disk = Snapshot(index, documents, metadata)
        /\ Loaded(0).index = index
        /\ Loaded(0).documents = documents
        /\ Loaded(0).metadata = metadata
        /\ \A failAt \in 0..3 :
            /\ \A i \in 1..Len(Loaded(failAt).metadata) :
                Loaded(failAt).metadata[i].file # ret.filename
            /\ Loaded(failAt).documents \in {documents, <<>>}

\* a delete_document that removed chunks and retained one, over a snapshot
\* that was on disk before
C7_Witness ==
    /\ ret.op = "delete_document" /\ ret.ok /\ ret.val > 0
    /\ Len(documents) >= 1
    /\ Len(metadata) >= 1
    /\ diskMeta = File(metadata)

\* C8: whenever save() stops, also between its file writes, the three files
\* are those of one completed save (the ones before the call or the ones of
\* this call), and what load() makes of them is an aligned store whenever the
\* store in memory and the files before the call were.
C8_SnapshotIsAtomic ==
    [][ret'.op = "save" =>
        /\ \/ disk' = disk
           \/ disk' = Snapshot(index, documents, metadata)
        /\ (/\ Aligned(index, documents, metadata)
            /\ Aligned(Loaded(0).index, Loaded(0).documents, Loaded(0).metadata))
           => Aligned(Loaded(0).index', Loaded(0).documents',
                      Loaded(0).metadata')]_vars

\* C9: after save() has returned, a new store that loads the files holds the
\* same documents, metadata and vectors in the same positions, and answers
\* every search as the saved store does.
C9_SaveLoadRoundTrip ==
    (ret.op = "save" /\ ret.ok) =>
        /\ Loaded(0).failed = 0
        /\ Loaded(0).documents = documents
        /\ Loaded(0).metadata = metadata
        /\ ntotal(Loaded(0).index) = ntotal(index)
        /\ Loaded(0).index.vecs = index.vecs
        /\ \A query \in Queries, top_k \in TopKs, threshold \in Thresholds :
            search(Loaded(0).index, Loaded(0).documents, Loaded(0).metadata,
                   query, top_k, threshold, FALSE)
              = search(index, documents, metadata, query, top_k, threshold,
                       FALSE)

\* a completed save of a store of two chunks after a delete
C9_Witness ==
    /\ ret.op = "save" /\ ret.ok
    /\ Len(documents) = 2
    /\ removedFiles # {}
    /\ diskDocs = File(documents)

\* C10: load() without an index file leaves an empty store, and a load()
\* that fails on any of the three reads leaves zero vectors, zero texts and
\* zero metadata.
C10_FailedLoadLeavesEmptyStore ==
    (ret.op = "load" /\ (ret.failed > 0 \/ ~diskIndex.exists)) =>
        /\ ntotal(index) = 0
        /\ documents = <<>>
        /\ metadata = <<>>

\* C11: search on a store without vectors (index never created, or created
\* and empty) returns the empty list and raises nothing, whatever the query,
\* top_k and threshold, also while the provider is down.
C11_EmptyStoreSearch ==
    (ret.op = "search" /\ ntotal(index) = 0) =>
        /\ ret.ok
        /\ ret.val = <<>>

\* a search on an index that was created and emptied by a delete
C11_Witness ==
    /\ ret.op = "search" /\ ret.ok
    /\ index.made
    /\ ntotal(index) = 0
    /\ removedFiles # {}

\* the candidates index.search hands to the result loop of the last search
LastCandidates == IndexSearch(index.vecs, Embed(ret.query), ret.top_k, {})

\* C12: with threshold <= 0 a search returns every valid candidate among
\* the top_k nearest; with threshold > 0 it returns exactly those whose
\* 1/(1+distance) is at least the threshold, so threshold 1 returns only
\* candidates at distance 0 and nothing when there is none.
C12_ThresholdFiltering ==
    (ret.op = "search" /\ ret.ok /\ ntotal(index) > 0) =>
        LET t == ret.threshold
            valid == {i \in 1..Len(LastCandidates) :
                        /\ LastCandidates[i].doc_idx >= 0
                        /\ LastCandidates[i].doc_idx < Len(documents)}
            kept == IF t[1] <= 0 THEN valid
                    ELSE {i \in valid :
                            t[2] >= t[1] * (1 + LastCandidates[i].distance)}
        IN  /\ Len(ret.val) = Cardinality(kept)
            /\ \A j \in 1..Len(ret.val) :
                LET c == LastCandidates[NthOf(kept, j)]
                IN  /\ ret.val[j].distance = c.distance
                    /\ ret.val[j].text = documents[c.doc_idx + 1]
            /\ t = <<1, 1>> =>
                \A j \in 1..Len(ret.val) : ret.val[j].distance = 0

\* a search with threshold 1/2 that kept one of two valid candidates
C12_Witness ==
    /\ ret.op = "search" /\ ret.ok
    /\ ret.threshold = <<1, 2>>
    /\ ret.top_k = 2
    /\ ntotal(index) = 2
    /\ Len(documents) = 2
    /\ Len(ret.val) = 1

\* C13: in every list search returns, the record at position i (from 1) has
\* rank i: no rank is skipped where a candidate was dropped.
C13_DenseRanks ==
    (ret.op = "search" /\ ret.ok) =>
        \A i \in 1..Len(ret.val) : ret.val[i].rank = i

\* C14: the list search returns is in non-increasing order of score and
\* non-decreasing order of distance, and of two records the one at the
\* smaller distance has the strictly greater score 1/(1+distance).
C14_ResultOrdering ==
    (ret.op = "search" /\ ret.ok) =>
        \A i, j \in 1..Len(ret.val) :
            /\ ret.val[i].score[1] * (1 + ret.val[i].distance)
                   = ret.val[i].score[2]
            /\ i < j =>
                /\ ret.val[i].distance <= ret.val[j].distance
                /\ ret.val[i].score[1] * ret.val[j].score[2]
                       >= ret.val[j].score[1] * ret.val[i].score[2]
            /\ ret.val[i].distance < ret.val[j].distance =>
                ret.val[i].score[1] * ret.val[j].score[2]
                    > ret.val[j].score[1] * ret.val[i].score[2]

\* a search that returned two records at different distances
C14_Witness ==
    /\ ret.op = "search" /\ ret.ok
    /\ Len(ret.val) = 2
    /\ ret.val[1].distance # ret.val[2].distance

\* C15: when the provider fails on the query of a search over a store that
\* holds vectors, the search raises: it returns no list, and the index, the
\* texts and the metadata are as before the call.
C15_QueryEmbeddingFailurePropagates ==
    [][(ret'.op = "search" /\ faults' = faults + 1) =>
        /\ ~ret'.ok
        /\ store' = store]_vars

\* a search that raised on a store of two chunks
C15_Witness ==
    /\ ret.op = "search" /\ ~ret.ok
    /\ ntotal(index) = 2
    /\ Aligned(index, documents, metadata)

\* C16: a search leaves the index, the texts and the metadata as they were,
\* and a search that follows a search with the same query, top_k and
\* threshold returns the same list.
C16_SearchIsPure ==
    [][ret'.op = "search" =>
        /\ store' = store
        /\ (/\ ret.op = "search" /\ ret.ok /\ ret'.ok
            /\ ret'.query = ret.query
            /\ ret'.top_k = ret.top_k
            /\ ret'.threshold = ret.threshold) => ret'.val = ret.val]_vars

\* a search that returned two records on a store that a delete changed
C16_Witness ==
    /\ ret.op = "search" /\ ret.ok
    /\ Len(ret.val) = 2
    /\ removedFiles # {}
    /\ ret.threshold = <<0, 1>>

\* C17: clear() leaves an empty index, no texts and no metadata in memory and
\* the three files on disk as they were; a store loaded from the files after
\* the clear is the store loaded from them before it.
C17_ClearLeavesDiskAlone ==
    [][ret'.op = "clear" =>
        /\ index' = create_index
        /\ ntotal(index') = 0
        /\ documents' = <<>>
        /\ metadata' = <<>>
        /\ disk' = disk
        /\ Loaded(0)' = Loaded(0)]_vars

\* a clear of a store of two chunks whose snapshot stays on disk
C17_Witness ==
    /\ ret.op = "clear"
    /\ documents = <<>>
    /\ diskIndex.exists
    /\ Len(diskDocs.data) = 2
    /\ Len(diskMeta.data) = 2

\* C18: ingest_document of a file whose content hash is in the provenance
\* record returns 'already_processed' and changes neither the store, nor its
\* files, nor the provenance record; a second ingest right after a
\* successful ingest of the same file stores nothing more.
C18_IngestIdempotentByHash ==
    [][ret'.op = "ingest" =>
        /\ (\E i \in 1..Len(processed_docs) :
                processed_docs[i].hash = get_file_hash(ret'.file)) =>
            /\ ret'.status = "already_processed"
            /\ store' = store
            /\ disk' = disk
            /\ pipeline' = pipeline
        /\ (/\ ret.op = "ingest" /\ ret.status = "success"
            /\ ret'.file.content = ret.file.content) =>
            /\ ret'.status = "already_processed"
            /\ Len(documents') = Len(documents)
            /\ ntotal(index') = ntotal(index)]_vars

\* a second ingest of a file whose entry is the first of two in the record
C18_Witness ==
    /\ ret.op = "ingest" /\ ret.status = "already_processed"
    /\ Len(processed_docs) = 2
    /\ processed_docs[1].hash = get_file_hash(ret.file)
    /\ Len(documents) = 4

\* C19: every chunk a successful ingest hands to the store carries the name
\* of its source file as context.file_name, and delete_document(filename)
\* of a document in the provenance record removes as many chunks as the
\* record counts for it.
C19_FileNamePopulated ==
    [][/\ (ret'.op = "ingest" /\ ret'.status = "success") =>
            \A i \in (Len(metadata) + 1)..Len(metadata') :
                metadata'[i].file = ret'.file.name
       /\ (ret'.op = "delete_document" /\ ret'.ok) =>
            \A i \in 1..Len(processed_docs) :
                (/\ processed_docs[i].file_name = ret'.filename
                 /\ \A j \in 1..(i - 1) :
                        processed_docs[j].file_name # ret'.filename)
                => ret'.val = processed_docs[i].chunks]_vars

\* C20, as claimed: query never raises, and whenever the query embedding,
\* the search, a rerank call or the generation failed it returns success
\* False, the error message as answer, no sources and num_chunks_used 0.
C20_QueryFailsOnAnyFailure ==
    ret.op = "query" =>
        /\ ret.ok
        /\ ret.failed # {} =>
            /\ ~ret.success
            /\ ret.answer = "Error processing query"
            /\ ret.num_sources = 0
            /\ ret.num_chunks_used = 0

\* C20, amended: query never raises; when the query embedding, the search
\* or the generation failed it returns success False, the error message as
\* answer, no sources and num_chunks_used 0; when only a rerank call failed
\* it returns success True with the RERANK_TOP_K reranked chunks as sources.
C20_QueryNeverRaises ==
    ret.op = "query" =>
        /\ ret.ok
        /\ ret.failed \cap {"embedding", "search", "generation"} # {} =>
            /\ ~ret.success
            /\ ret.answer = "Error processing query"
            /\ ret.num_sources = 0
            /\ ret.num_chunks_used = 0
        /\ ret.failed \subseteq {"rerank"} =>
            /\ ret.success
            /\ ret.answer = "answer"
            /\ ret.num_chunks_used = ret.num_sources
        /\ ret.failed = {"rerank"} =>
            ret.num_chunks_used = RERANK_TOP_K

\* a query whose generation failed after the retrieval returned chunks
C20_Witness ==
    /\ ret.op = "query"
    /\ ret.failed = {"generation"}
    /\ ~ret.success
    /\ ntotal(index) = 4
    /\ Len(documents) = 4

\* C21: delete_by_filename(f) on a store in which no chunk has file_name f
\* returns 0 without a provider call and leaves the index, the texts and the
\* metadata as they were; so does a second delete of f right after a first.
C21_DeleteOfAbsentFileIsNoOp ==
    [][ret'.op = "delete" =>
        /\ (\A i \in 1..Len(metadata) : metadata[i].file # ret'.filename) =>
            /\ ret'.ok
            /\ ret'.val = 0
            /\ store' = store
            /\ faults' = faults
        /\ (ret.op = "delete" /\ ret.filename = ret'.filename) =>
            /\ ret'.ok
            /\ ret'.val = 0
            /\ store' = store]_vars

\* C22: a search returns at most top_k records and skips the slots at
\* position -1: on an aligned store of n vectors with threshold <= 0 it
\* returns min(top_k, n) records.
C22_AtMostTopK ==
    (ret.op = "search" /\ ret.ok) =>
        /\ Len(ret.val) <= ret.top_k
        /\ (Aligned(index, documents, metadata) /\ ret.threshold[1] <= 0) =>
            Len(ret.val) = Min(ret.top_k, ntotal(index))

\* a search for two records on an aligned store of one vector
C22_Witness ==
    /\ ret.op = "search" /\ ret.ok
    /\ ret.top_k = 2
    /\ ret.threshold[1] <= 0
    /\ ntotal(index) = 1
    /\ Aligned(index, documents, metadata)
    /\ Len(ret.val) = 1

\* the list the engine's search returns for the last retriever call
InitialResults ==
    search(index, documents, metadata, ret.query, ret.top_k,
           SIMILARITY_THRESHOLD, FALSE).val

\* the record r is the search result c, whatever was added to it
SameResult(r, c) ==
    /\ r.text = c.text
    /\ r.metadata = c.metadata
    /\ r.score = c.score
    /\ r.distance = c.distance
    /\ r.rank = c.rank

\* C23, as claimed: retrieve_with_rerank(query, top_k, rerank_top_k) asks the
\* engine's search for 2 * top_k candidates, so it scores min(2 * top_k, n)
\* candidates when it reranks a store of n chunks.
C23_RerankFetchesDouble ==
    ret.op = "retrieve_with_rerank" =>
        /\ ret.searched = 2 * ret.top_k
        /\ (ret.ok /\ ret.llm_calls > 0) =>
            ret.llm_calls = Min(2 * ret.top_k, ntotal(index))

\* C23, amended: retrieve_with_rerank(query, top_k, rerank_top_k) asks the
\* engine's search for top_k candidates, its own argument: it scores
\* min(top_k, n) candidates when it reranks a store of n chunks and returns
\* min(top_k, n) records when it does not.
C23_RerankFetchesTopK ==
    ret.op = "retrieve_with_rerank" =>
        /\ ret.searched = ret.top_k
        /\ (ret.ok /\ ret.llm_calls > 0) =>
            ret.llm_calls = Min(ret.top_k, ntotal(index))
        /\ (ret.ok /\ ret.llm_calls = 0) =>
            Len(ret.val) = Min(ret.top_k, ntotal(index))

\* a rerank with top_k 2 on a store of three chunks: two candidates scored
C23_Witness ==
    /\ ret.op = "retrieve_with_rerank" /\ ret.ok
    /\ ret.top_k = 2
    /\ ntotal(index) = 3
    /\ ret.llm_calls = 2
    /\ Len(ret.val) = 1

\* C24: retrieve_with_rerank returns at most rerank_top_k records, each one
\* a different result of the engine's search; when the search returned more
\* than rerank_top_k it returns the rerank_top_k of them with the highest
\* rerank scores, in non-increasing order of rerank score; otherwise it
\* returns the search results unchanged and makes no scoring call.
C24_RerankSelection ==
    (ret.op = "retrieve_with_rerank" /\ ret.ok) =>
        LET initial == InitialResults
            n == Len(initial)
            k == ret.rerank_top_k
            scoreOf(j) == rerank_score(initial[j], ret.replies[j],
                                       j \in ret.failed)
            returned == {ret.val[i].rank : i \in 1..Len(ret.val)}
        IN  /\ Len(ret.val) <= k
            /\ \A i \in 1..Len(ret.val) :
                \E j \in 1..n : SameResult(ret.val[i], initial[j])
            /\ Cardinality(returned) = Len(ret.val)
            /\ n <= k => (ret.val = initial /\ ret.llm_calls = 0)
            /\ n > k =>
                /\ Len(ret.val) = k
                /\ ret.llm_calls = n
                /\ \A i \in 1..k, j \in 1..n :
                    SameResult(ret.val[i], initial[j]) =>
                        ret.val[i].rerank_score = scoreOf(j)
                /\ \A i \in 1..(k - 1) :
                    FracGeq(ret.val[i].rerank_score,
                            ret.val[i + 1].rerank_score)
                /\ \A i \in 1..k, j \in 1..n :
                    initial[j].rank \notin returned =>
                        FracGeq(ret.val[i].rerank_score, scoreOf(j))

\* a rerank of three candidates to two that put the second nearest first
C24_Witness ==
    /\ ret.op = "retrieve_with_rerank" /\ ret.ok
    /\ ret.llm_calls = 3
    /\ Len(ret.val) = 2
    /\ ret.val[1].rank = 2
    /\ ret.val[1].distance > 0

\* the rerank score the replies of RerankReplies stand for: the first has no
\* digit among its first 10 characters, the second reads 2, the digits of
\* the third read 1010; without a digit, and when the call raised, the score
\* is 10 times the similarity
ExpectedRerankScore(c, reply, callFails) ==
    IF callFails \/ reply = RerankReplies[1] THEN <<10 * c.score[1], c.score[2]>>
    ELSE IF reply = RerankReplies[2] THEN <<2, 1>>
    ELSE <<1010, 1>>

FracEq(a, b) == a[1] * b[2] = b[1] * a[2]

\* C25: in a rerank, a scoring call that raised, or a reply without a digit
\* among its first 10 characters, gives its candidate 10 times its
\* similarity as rerank score; the other candidates get the scores of their
\* replies, and the rerank returns the rerank_top_k best by these scores.
C25_RerankFallbackIsLocal ==
    (ret.op = "retrieve_with_rerank" /\ ret.llm_calls > 0) =>
        LET initial == InitialResults
            expected(j) == ExpectedRerankScore(initial[j], ret.replies[j],
                                               j \in ret.failed)
            returned == {ret.val[i].rank : i \in 1..Len(ret.val)}
        IN  /\ ret.ok
            /\ Len(ret.val) = ret.rerank_top_k
            /\ \A j \in 1..Len(initial) : initial[j].rank = j
            /\ \A i \in 1..Len(ret.val) :
                /\ ret.val[i].rank \in 1..Len(initial)
                /\ FracEq(ret.val[i].rerank_score, expected(ret.val[i].rank))
                /\ \A j \in 1..Len(initial) :
                    j \notin returned =>
                        FracGeq(expected(ret.val[i].rank), expected(j))

\* a rerank of three candidates in which the call for the nearest one
\* raised: it is returned first with 10 times its similarity 1, followed by
\* the third candidate with the score 2 of its reply
C25_Witness ==
    /\ ret.op = "retrieve_with_rerank" /\ ret.ok
    /\ ret.failed = {1}
    /\ Len(ret.val) = 2
    /\ ret.val[1].rank = 1
    /\ ret.val[1].rerank_score = <<10, 1>>
    /\ ret.val[2].rank = 3
    /\ ret.val[2].rerank_score = <<2, 1>>

\* two characters that differ at most in case
SameLetter(a, b) ==
    \/ a = b
    \/ {a, b} \in {{"A", "a"}, {"B", "b"}, {"C", "c"}}

\* the number of keywords of the list that occur in the text of the chunk,
\* whatever the case of the letters
MatchCount(keywords, t) ==
    Cardinality({i \in 1..Len(keywords) :
        \E off \in 0..(Len(TextChars(t)) - Len(keywords[i])) :
            \A j \in 1..Len(keywords[i]) :
                SameLetter(TextChars(t)[off + j], keywords[i][j])})

\* C26: retrieve_hybrid with keywords returns the semantic results with each
\* score multiplied by 1 + 0.1 * m, m the number of keywords that occur in
\* the chunk text whatever the case, in non-increasing order of the new
\* score and at most top_k of them; without keywords it returns the semantic
\* results unchanged.
C26_HybridBoost ==
    (ret.op = "retrieve_hybrid" /\ ret.ok) =>
        LET initial == InitialResults
            m(j) == MatchCount(ret.keywords, initial[j].text)
        IN  /\ ret.keywords = <<>> => ret.val = initial
            /\ Len(ret.val) <= ret.top_k
            /\ Len(ret.val) = Len(initial)
            /\ Cardinality({ret.val[i].rank : i \in 1..Len(ret.val)})
                   = Len(ret.val)
            /\ \A i \in 1..Len(ret.val) :
                \E j \in 1..Len(initial) :
                    /\ ret.val[i].rank = initial[j].rank
                    /\ ret.val[i].text = initial[j].text
                    /\ ret.val[i].metadata = initial[j].metadata
                    /\ ret.val[i].distance = initial[j].distance
                    /\ ret.val[i].score[1] * initial[j].score[2] * 10
                           = initial[j].score[1] * (10 + m(j))
                               * ret.val[i].score[2]
            /\ \A i \in 1..(Len(ret.val) - 1) :
                FracGeq(ret.val[i].score, ret.val[i + 1].score)

\* a hybrid retrieval in which the keyword "a" lifted the second nearest
\* chunk, whose text has the capital A, over the nearest
C26_Witness ==
    /\ ret.op = "retrieve_hybrid" /\ ret.ok
    /\ ret.keywords = <<(<<"a">>)>>
    /\ Len(ret.val) = 2
    /\ ret.val[1].rank = 2
    /\ ret.val[1].text = 1

\* C27: when a delete_by_filename call that removes chunks recreates the
\* index, re-embeds the current texts and returns, all of it between the
\* index.add and the documents.extend of an add_documents call, and no other
\* delete starts before that add returns, the add returns on a store whose
\* number of texts differs from index.ntotal
C27_InterleavingBreaksAlignment ==
    (ret.op = "add_documents" /\ ret.ok /\ ret.seen = "rebuilt"
       /\ add_call.pc = "idle" /\ delete_call.pc = "idle") =>
        Len(documents) # ntotal(index)

\* such an add returned: the delete left one text and one vector, the add
\* appended its text to the texts, and its vector is gone
C27_Witness ==
    /\ ret.op = "add_documents" /\ ret.ok /\ ret.seen = "rebuilt"
    /\ add_call.pc = "idle" /\ delete_call.pc = "idle"
    /\ ret.val = 1
    /\ ntotal(index) = 1
    /\ Len(documents) = 2
    /\ Len(metadata) = 2

\* the hashes a file can have
Hashes == {get_file_hash(f) : f \in Uploads}

\* C28: a delete_document call that returns and removed a hash from
\* processed_docs leaves a provenance file without that hash
C28_DeletedHashLeavesDisk ==
    [][(ret'.op = "delete_document" /\ ret'.ok) =>
          \A h \in Hashes :
              (HasHash(processed_docs, h) /\ ~HasHash(processed_docs', h)) =>
                  ~HasHash(load_metadata(diskProv'), h)]_vars

\* the texts of the chunks ingest_document makes of a file
UploadTexts(f) == TextsOf(process_document(parse(f)).chunks)

\* the store holds a text of the file, or of a file of the same bytes under
\* another name
HoldsTextOf(f) ==
    \E g \in Uploads :
        /\ get_file_hash(g) = get_file_hash(f)
        /\ \E i \in 1..Len(documents), j \in 1..Len(UploadTexts(g)) :
               documents[i] = UploadTexts(g)[j]

\* C29: an ingest_document call answers 'already_processed' only for a file
\* the store holds chunks of
C29_SkippedOnlyWhileStored ==
    (ret.op = "ingest" /\ ret.status = "already_processed") =>
        HoldsTextOf(ret.file)

\* the positions in the store's chunks where the chunks of the file start
CopiesOf(f) ==
    LET chunks == process_document(parse(f)).chunks
    IN  {i \in 1..Len(metadata) :
            /\ i + Len(chunks) - 1 <= Len(metadata)
            /\ SubSeq(metadata, i, i + Len(chunks) - 1) = chunks}

\* C30: the store holds the chunks of a file at most once
C30_AtMostOneCopy ==
    \A f \in Uploads :
        process_document(parse(f)).chunks # <<>> => Cardinality(CopiesOf(f)) <= 1

====
